---------------------------- MODULE Spec2Model ----------------------------
(* Verification model of the qibo TensorFlow custom operators:            *)
(*   cc/kernels/initial_state_kernels.cc  (InitialState kernel, CPU/GPU   *)
(*                                         kernel registrations)          *)
(*   cc/ops/custom_ops.cc                 (op registrations and shape     *)
(*                                         functions)                     *)
(* Complex amplitudes are pairs <<re, im>> of integers.                   *)
EXTENDS Integers, Sequences, FiniteSets, TLC

VARIABLES
    \* --- InitialState kernel library and one op invocation ---
    cuda,       \* TRUE iff GOOGLE_CUDA is defined for the build
    regpc,      \* next kernel registration statement to run at load time
    registry,   \* registered kernels: <<op name, device, element type>>
    pc,         \* "load" | "ready" | "compute" | "done"
    heap,       \* buffer identity -> contents (sequence of amplitudes)
    input,      \* the tensor handed to the op as input 0
    device,     \* device the invocation is placed on
    output,     \* output 0 of the op, NoTensor until set_output
    status,     \* status reported to the caller
    old,        \* contents of the input buffer when Compute was entered
    orig,       \* contents of the caller's buffer before the first invocation
    written,    \* element indices the functor stored to in the last Compute
    oob,        \* TRUE once a store landed outside its buffer
    ncalls,     \* number of Compute executions
    \* --- op registry and shape inference ---
    ops,        \* registered op definitions, by name
    oppc,       \* next op registration statement to run
    node,       \* graph node under shape inference
    outShape,   \* inferred output shapes
    outType,    \* inferred output element types
    \* --- gate applicator ---
    nq,         \* qubit count n
    target,     \* target qubit
    controls,   \* set of control qubits
    gate,       \* <<a, b, c, d>>, row-major 2x2 matrix
    amp,        \* amplitude vector, index -> amplitude
    amp0,       \* amplitude vector at kernel entry
    ppc,        \* pair k -> "idle" | "read" | "w0" | "done"
    loc,        \* pair k -> <<old i0 value, old i1 value>> read by the worker
    \* --- pair index enumeration ---
    ik,         \* next iteration index k
    ipairs      \* pairs <<i0, i1>> produced so far

kvars == <<cuda, regpc, registry, pc, heap, input, device, output, status,
           old, orig, written, oob, ncalls>>
svars == <<ops, oppc, node, outShape, outType>>
gvars == <<nq, target, controls, gate, amp, amp0, ppc, loc>>
ivars == <<ik, ipairs>>
vars == <<kvars, svars, gvars, ivars>>

--------------------------------------------------------------------------
(* Bounds *)
MaxLen == 4         \* longest input buffer of an InitialState invocation
MaxCalls == 2       \* InitialState applications chained on one buffer
MaxRank == 2        \* highest rank of a state-vector shape under inference
MaxIdxQubits == 5   \* largest qubit count of the pair-index enumeration
MaxQubits == 2      \* largest qubit count of a gate application

--------------------------------------------------------------------------
(* Values *)
Zero == <<0, 0>>
One == <<1, 0>>
Garbage == <<7, -3>>
Vals == {Zero, One, Garbage}

DTypes == {"complex64", "complex128", "float32"}
Devices == {"CPU", "GPU"}
NoTensor == [buf |-> 0, dtype |-> "none"]

Pow2(n) == 2 ^ n
IsPow2(len) == \E n \in 0..len : Pow2(n) = len

Buffers == UNION {[1..l -> Vals] : l \in 0..MaxLen}

\* The basis state |0...0> of the given length.
Ground(len) == [i \in 1..len |-> IF i = 1 THEN One ELSE Zero]

\* No graph node built yet.
NoNode == [op |-> "none", T |-> "none", inShapes |-> <<>>, inTypes |-> <<>>,
           nqubits |-> 0, target |-> 0, state |-> "none"]

--------------------------------------------------------------------------
(* Idle values of the variables a specification does not use *)
IdleK ==
    /\ cuda = FALSE /\ regpc = 1 /\ registry = {} /\ pc = "off"
    /\ heap = <<>> /\ input = NoTensor /\ device = "CPU"
    /\ output = NoTensor /\ status = "none" /\ old = <<>> /\ orig = <<>>
    /\ written = {} /\ oob = FALSE /\ ncalls = 0
IdleS ==
    /\ ops = {} /\ oppc = 0 /\ node = NoNode
    /\ outShape = <<>> /\ outType = <<>>
IdleG ==
    /\ nq = 0 /\ target = 0 /\ controls = {} /\ gate = <<>>
    /\ amp = <<>> /\ amp0 = <<>> /\ ppc = <<>> /\ loc = <<>>
IdleI ==
    /\ ik = 0 /\ ipairs = {}

--------------------------------------------------------------------------
(* InitialState: functors *)

\* A functor receives only the data pointer; it is modelled by the set of
\* stores <<element index, value>> it performs through that pointer.

InitialStateFunctorCPU_zerofill(len) ==
    {<<0, One>>} \cup {<<i, Zero>> : i \in 1..(len - 1)}

InitialStateFunctorCPU_last(len) ==
    {<<IF len > 0 THEN len - 1 ELSE 0, One>>}

\* inout[0] = T(1, 0);
InitialStateFunctorCPU(len) ==
    {<<0, One>>}

\* Accelerator functor: full reset to the ground state.
InitialStateFunctorGPU(len) ==
    {<<0, One>>} \cup {<<i, Zero>> : i \in 1..(len - 1)}

InitialStateFunctor(dev, len) ==
    IF dev = "CPU" THEN InitialStateFunctorCPU(len)
                   ELSE InitialStateFunctorGPU(len)

\* Effect of a set of stores on a buffer: stores inside the buffer land.
Store(data, stores) ==
    [i \in 1..Len(data) |->
        IF \E s \in stores : s[1] = i - 1
        THEN (CHOOSE s \in stores : s[1] = i - 1)[2]
        ELSE data[i]]

Indices(stores) == {s[1] : s \in stores}
OutOfBounds(data, stores) == \E s \in stores : s[1] \notin 0..(Len(data) - 1)

--------------------------------------------------------------------------
(* InitialState: kernel registration at library load *)

\* .Attr("T: {complex64, complex128}")
AttrT == {"complex64", "complex128"}

\* REGISTER_CPU(complex64); REGISTER_CPU(complex128);
\* REGISTER_GPU(complex64); REGISTER_GPU(complex128);
RegistrationOrder == <<"complex64", "complex128", "complex64", "complex128">>

KernelUnchanged == UNCHANGED <<heap, input, device, output, status, old,
                               orig, written, oob, ncalls, cuda>>

REGISTER_CPU(T) ==
    /\ pc = "load"
    /\ regpc \in {1, 2}
    /\ T = RegistrationOrder[regpc]
    /\ registry' = registry \cup {<<"InitialState", "CPU", T>>}
    /\ regpc' = regpc + 1
    /\ pc' = pc
    /\ KernelUnchanged
    /\ UNCHANGED <<svars, gvars, ivars>>

REGISTER_GPU_asCPU(T) ==
    /\ pc = "load"
    /\ cuda
    /\ regpc \in {3, 4}
    /\ T = RegistrationOrder[regpc]
    /\ registry' = registry \cup {<<"InitialState", "CPU", T>>}
    /\ regpc' = regpc + 1
    /\ pc' = pc
    /\ KernelUnchanged
    /\ UNCHANGED <<svars, gvars, ivars>>

\* Inside #ifdef GOOGLE_CUDA.
REGISTER_GPU(T) ==
    /\ pc = "load"
    /\ cuda
    /\ regpc \in {3, 4}
    /\ T = RegistrationOrder[regpc]
    /\ registry' = registry \cup {<<"InitialState", "GPU", T>>}
    /\ regpc' = regpc + 1
    /\ pc' = pc
    /\ KernelUnchanged
    /\ UNCHANGED <<svars, gvars, ivars>>

\* End of the translation unit's static initialisers.
Loaded ==
    /\ pc = "load"
    /\ IF cuda THEN regpc = 5 ELSE regpc = 3
    /\ pc' = "ready"
    /\ UNCHANGED <<regpc, registry>>
    /\ KernelUnchanged
    /\ UNCHANGED <<svars, gvars, ivars>>

--------------------------------------------------------------------------
(* InitialState: dispatch and Compute *)

\* The runtime checks the T attribute against the op definition and looks
\* the kernel up by (device, T) before any kernel code runs.
Dispatch ==
    /\ pc = "ready"
    /\ IF input.dtype \notin AttrT
       THEN /\ status' = "InvalidArgument"
            /\ pc' = "done"
       ELSE IF <<"InitialState", device, input.dtype>> \notin registry
       THEN /\ status' = "NotFound"
            /\ pc' = "done"
       ELSE /\ status' = "running"
            /\ pc' = "compute"
    /\ UNCHANGED <<cuda, regpc, registry, heap, input, device, output, old,
                   orig, written, oob, ncalls>>
    /\ UNCHANGED <<svars, gvars, ivars>>

Compute_alloc ==
    /\ pc = "compute"
    /\ LET data == heap[input.buf]
           stores == InitialStateFunctor(device, Len(data))
           fresh == Cardinality(DOMAIN heap) + 1
       IN  /\ Len(data) > 0
           /\ old' = data
           /\ written' = Indices(stores)
           /\ heap' = [b \in DOMAIN heap \cup {fresh} |->
                          IF b = fresh THEN Store(data, stores) ELSE heap[b]]
           /\ output' = [buf |-> fresh, dtype |-> input.dtype]
           /\ status' = "OK"
           /\ oob' = oob
    /\ ncalls' = ncalls + 1
    /\ pc' = "done"
    /\ UNCHANGED <<cuda, regpc, registry, input, device, orig>>
    /\ UNCHANGED <<svars, gvars, ivars>>

\* InitialStateOp<Device, T>::Compute.  input_tensor shares the buffer of
\* input 0; the functor stores through its data pointer; the same tensor is
\* set as output 0.  A store outside the buffer is undefined behaviour: the
\* process may die, or the store may land in unrelated memory.
Compute ==
    /\ pc = "compute"
    /\ LET data == heap[input.buf]
           stores == InitialStateFunctor(device, Len(data))
       IN  /\ old' = data
           /\ written' = Indices(stores)
           /\ IF OutOfBounds(data, stores)
              THEN \/ /\ status' = "Crashed"
                      /\ UNCHANGED <<heap, output, oob>>
                   \/ /\ oob' = TRUE
                      /\ heap' = [heap EXCEPT ![input.buf] = Store(data, stores)]
                      /\ output' = input
                      /\ status' = "OK"
              ELSE /\ heap' = [heap EXCEPT ![input.buf] = Store(data, stores)]
                   /\ output' = input
                   /\ status' = "OK"
                   /\ oob' = oob
    /\ ncalls' = ncalls + 1
    /\ pc' = "done"
    /\ UNCHANGED <<cuda, regpc, registry, input, device, orig>>
    /\ UNCHANGED <<svars, gvars, ivars>>

\* The caller feeds output 0 of a finished op to another InitialState op.
Reinvoke ==
    /\ pc = "done"
    /\ status = "OK"
    /\ ncalls < MaxCalls
    /\ input' = output
    /\ output' = NoTensor
    /\ status' = "none"
    /\ pc' = "ready"
    /\ UNCHANGED <<cuda, regpc, registry, heap, device, old, orig, written,
                   oob, ncalls>>
    /\ UNCHANGED <<svars, gvars, ivars>>

--------------------------------------------------------------------------
(* Op registrations and shape inference (custom_ops.cc) *)

\* REGISTER_OP("InitialState")
OpDef_InitialState ==
    [name |-> "InitialState",
     attrT |-> {"complex64", "complex128"},
     inputs |-> <<"T">>,
     attrs |-> {},
     outputs |-> <<"T">>]

\* #define REGISTER_GATE_OP(NAME)
REGISTER_GATE_OP(NAME) ==
    [name |-> NAME,
     attrT |-> {"complex64", "complex128"},
     inputs |-> <<"T", "T", "int32">>,
     attrs |-> {"nqubits", "target"},
     outputs |-> <<"T">>]

\* REGISTER_GATE_OP("ApplyGate") ... REGISTER_GATE_OP("ApplyZPow")
GateOpOrder == <<"ApplyGate", "ApplyX", "ApplyY", "ApplyZ", "ApplyZPow">>

\* c->set_output(0, c->input(0)) of the InitialState shape function.
ShapeFn_InitialState(inShapes) == <<inShapes[1]>>

ShapeFn_Gate_fromGate(inShapes) == <<inShapes[2]>>

\* c->set_output(0, c->input(0)) of the gate ops' shape function.
ShapeFn_Gate(inShapes) == <<inShapes[1]>>

\* A type reference of an op definition is the attribute T or a fixed type.
ResolveType(ref, T) == IF ref = "T" THEN T ELSE ref

Dims == {-1, 2, 4}
StateShapes == UNION {[1..r -> Dims] : r \in 0..MaxRank}
GateShapes == {<<2, 2>>, <<4>>}
ControlShapes == {<<0>>, <<1>>, <<2>>}

RegisterInitialStateOp ==
    /\ oppc = 1
    /\ ops' = ops \cup {OpDef_InitialState}
    /\ oppc' = oppc + 1
    /\ UNCHANGED <<node, outShape, outType>>
    /\ UNCHANGED <<kvars, gvars, ivars>>

RegisterGateOp(NAME) ==
    /\ oppc \in 2..6
    /\ NAME = GateOpOrder[oppc - 1]
    /\ ops' = ops \cup {REGISTER_GATE_OP(NAME)}
    /\ oppc' = oppc + 1
    /\ UNCHANGED <<node, outShape, outType>>
    /\ UNCHANGED <<kvars, gvars, ivars>>

\* A graph node of a registered op is built: the runtime checks T against
\* the op's attribute constraint and types the inputs from the definition.
BuildNode ==
    /\ oppc = 7
    /\ node.state = "none"
    /\ \E def \in ops, T \in DTypes, s \in StateShapes, g \in GateShapes,
          c \in ControlShapes, n \in 1..2, t \in 0..1 :
         node' = [op |-> def.name,
                  T |-> T,
                  inShapes |-> IF Len(def.inputs) = 1 THEN <<s>>
                                                      ELSE <<s, g, c>>,
                  inTypes |-> [i \in 1..Len(def.inputs) |->
                                  ResolveType(def.inputs[i], T)],
                  nqubits |-> IF "nqubits" \in def.attrs THEN n ELSE 0,
                  target |-> IF "target" \in def.attrs THEN t ELSE 0,
                  state |-> IF T \in def.attrT THEN "built" ELSE "rejected"]
    /\ UNCHANGED <<ops, oppc, outShape, outType>>
    /\ UNCHANGED <<kvars, gvars, ivars>>

\* Static shape inference runs the op's shape function; the output types
\* come from the op definition.
InferShapes ==
    /\ node.state = "built"
    /\ LET def == CHOOSE d \in ops : d.name = node.op
       IN  /\ outShape' = IF node.op = "InitialState"
                          THEN ShapeFn_InitialState(node.inShapes)
                          ELSE ShapeFn_Gate(node.inShapes)
           /\ outType' = [i \in 1..Len(def.outputs) |->
                             ResolveType(def.outputs[i], node.T)]
    /\ node' = [node EXCEPT !.state = "inferred"]
    /\ UNCHANGED <<ops, oppc>>
    /\ UNCHANGED <<kvars, gvars, ivars>>

InitShape ==
    /\ ops = {}
    /\ oppc = 1
    /\ node = NoNode
    /\ outShape = <<>>
    /\ outType = <<>>
    /\ IdleK /\ IdleG /\ IdleI

NextShape ==
    \/ RegisterInitialStateOp
    \/ \E NAME \in {GateOpOrder[i] : i \in 1..Len(GateOpOrder)} :
          RegisterGateOp(NAME)
    \/ BuildNode
    \/ InferShapes

SpecShape == InitShape /\ [][NextShape]_vars

RegisteredOps == {d.name : d \in ops}

\* C4: for each of the six registered operations and every input
\* state-vector shape, the inferred shape and element type of output 0 equal
\* those of input 0, whatever the gate and controls shapes and the nqubits
\* and target attributes.
Thm_C4_IdentityShapeInference ==
    /\ oppc = 7 =>
          RegisteredOps = {"InitialState", "ApplyGate", "ApplyX", "ApplyY",
                           "ApplyZ", "ApplyZPow"}
    /\ node.state = "inferred" =>
          /\ Len(outShape) = 1 /\ Len(outType) = 1
          /\ outShape[1] = node.inShapes[1]
          /\ outType[1] = node.inTypes[1]

Wit_C4_IdentityShapeInference ==
    /\ node.state = "inferred"
    /\ node.op = "ApplyZPow"
    /\ node.T = "complex128"
    /\ node.inShapes = <<<<4, -1>>, <<2, 2>>, <<1>>>>
    /\ node.nqubits = 2 /\ node.target = 1
    /\ outShape = <<<<4, -1>>>>
    /\ outType = <<"complex128">>

--------------------------------------------------------------------------
(* Specification of the InitialState kernel *)
Init ==
    /\ cuda \in BOOLEAN
    /\ regpc = 1
    /\ registry = {}
    /\ pc = "load"
    /\ \E data \in Buffers : /\ heap = <<data>>
                             /\ old = data
                             /\ orig = data
    /\ \E T \in DTypes : input = [buf |-> 1, dtype |-> T]
    /\ device \in Devices
    /\ output = NoTensor
    /\ status = "none"
    /\ written = {}
    /\ oob = FALSE
    /\ ncalls = 0
    /\ IdleS /\ IdleG /\ IdleI

Next ==
    \/ \E T \in AttrT : REGISTER_CPU(T)
    \/ \E T \in AttrT : REGISTER_GPU(T)
    \/ Loaded
    \/ Dispatch
    \/ Compute
    \/ Reinvoke

Spec == Init /\ [][Next]_vars

--------------------------------------------------------------------------
(* Properties of the InitialState kernel *)

Finished == pc = "done" /\ status = "OK"
Result == heap[output.buf]

\* C1: for every buffer of length 2^n with n >= 1 and every prior content,
\* after InitialState runs element 0 is (1,0) and every other element is
\* (0,0).
Claim_C1_GroundStateAnyContent ==
    (Finished /\ IsPow2(Len(old)) /\ Len(old) >= 2)
        => Result = Ground(Len(old))

\* C2: an invocation whose buffer length is not a power of two (length 0
\* included) is rejected with an error before any element is written, the
\* buffer is left unchanged and no output is produced.
Claim_C2_BadLengthRejected ==
    (pc = "done" /\ ~IsPow2(Len(orig)))
        => /\ status \in {"InvalidArgument", "NotFound"}
           /\ heap[input.buf] = orig
           /\ output = NoTensor
           /\ ~oob

\* C3: for every InitialState invocation that returns, output 0 has the
\* buffer identity of input 0: the stores went to the caller's buffer and
\* no other buffer was allocated.
Thm_C3_OutputAliasesInput ==
    Finished =>
        /\ output.buf = input.buf
        /\ output.dtype = input.dtype
        /\ DOMAIN heap = {input.buf}
        /\ Len(old) >= 1 => heap[input.buf][1] = One

Wit_C3_OutputAliasesInput ==
    /\ Finished
    /\ output.buf = input.buf
    /\ Len(old) = 4
    /\ orig[1] = Garbage
    /\ heap[input.buf][1] = One

\* C5: InitialState on a buffer of length 1 yields [(1,0)], on a buffer of
\* length 2 yields [(1,0),(0,0)], and every index it writes lies in
\* [0, length).
Claim_C5_SmallRegisters ==
    (Finished /\ Len(old) \in {1, 2})
        => /\ Result = Ground(Len(old))
           /\ written \subseteq 0..(Len(old) - 1)

ExpectedKernels ==
    {"InitialState"} \X (IF cuda THEN {"CPU", "GPU"} ELSE {"CPU"})
                     \X {"complex64", "complex128"}

\* C8: the kernels offered for InitialState are exactly CPU x {complex64,
\* complex128} without an accelerator backend and {CPU, GPU} x {complex64,
\* complex128} with one; an invocation with any other element type is
\* rejected before the kernel runs.
Thm_C8_OfferedKernels ==
    /\ pc # "load" => registry = ExpectedKernels
    /\ input.dtype \notin {"complex64", "complex128"} =>
          /\ pc # "compute"
          /\ ncalls = 0
          /\ heap[input.buf] = orig
          /\ pc = "done" => status \in {"InvalidArgument", "NotFound"}

Wit_C8_OfferedKernels ==
    /\ cuda
    /\ pc = "done"
    /\ registry = ExpectedKernels
    /\ input.dtype = "float32"
    /\ device = "GPU"
    /\ status = "InvalidArgument"

\* C9: the CPU kernel stores to exactly one element: after it runs on a
\* buffer of length >= 1, element 0 is (1,0) and every element i > 0 holds
\* the value it held before the call.
Thm_C9_CpuWritesOnlyIndexZero ==
    (Finished /\ device = "CPU" /\ Len(old) >= 1)
        => /\ written = {0}
           /\ Len(Result) = Len(old)
           /\ Result[1] = One
           /\ \A i \in 2..Len(old) : Result[i] = old[i]

Wit_C9_CpuWritesOnlyIndexZero ==
    /\ Finished /\ device = "CPU"
    /\ ncalls = 1
    /\ Len(old) = 4
    /\ old[1] = Zero /\ old[2] = Garbage /\ old[4] = One
    /\ Result = <<One, Garbage, old[3], One>>

AllZero(data) == \A i \in 1..Len(data) : data[i] = Zero

\* C10: if every element is (0,0) before the call, the CPU kernel leaves the
\* ground state; and a second application of InitialState leaves the result
\* of the first unchanged.
Thm_C10_ZeroBufferAndIdempotence ==
    /\ (Finished /\ device = "CPU" /\ Len(old) >= 1 /\ AllZero(old))
          => Result = Ground(Len(old))
    /\ (Finished /\ ncalls >= 2) => Result = old

Wit_C10_ZeroBufferAndIdempotence ==
    /\ Finished /\ device = "CPU"
    /\ ncalls = 2
    /\ Len(orig) = 4 /\ AllZero(orig)
    /\ old = Ground(4)
    /\ Result = Ground(4)

--------------------------------------------------------------------------
(* Bit-index geometry *)

\* Width of the integer type holding an amplitude index.
WordBits == 16

Bit(x, b) == (x \div Pow2(b)) % 2

RECURSIVE BitAnd(_, _)
BitAnd(x, y) ==
    IF x = 0 \/ y = 0 THEN 0
    ELSE (x % 2) * (y % 2) + 2 * BitAnd(x \div 2, y \div 2)

RECURSIVE BitOr(_, _)
BitOr(x, y) ==
    IF x = 0 THEN y
    ELSE IF y = 0 THEN x
    ELSE (IF x % 2 = 1 \/ y % 2 = 1 THEN 1 ELSE 0)
             + 2 * BitOr(x \div 2, y \div 2)

BitNot(x) == (Pow2(WordBits) - 1) - x
ShiftLeft(x, s) == (x * Pow2(s)) % Pow2(WordBits)

PairI0_maskOffByOne(k, t) ==
    LET mask_low == ShiftLeft(1, t)
    IN  BitOr(ShiftLeft(BitAnd(k, BitNot(mask_low)), 1), BitAnd(k, mask_low))

\* mask_low = (1 << t) - 1;  i0 = (k & ~mask_low) << 1 | (k & mask_low)
PairI0(k, t) ==
    LET mask_low == ShiftLeft(1, t) - 1
    IN  BitOr(ShiftLeft(BitAnd(k, BitNot(mask_low)), 1), BitAnd(k, mask_low))

\* i1 = i0 | (1 << t)
PairI1(k, t) == BitOr(PairI0(k, t), ShiftLeft(1, t))

NPairs(n) == Pow2(n - 1)

\* One iteration of the pair loop: the pair of iteration index ik.
NextPair ==
    /\ ik < NPairs(nq)
    /\ ipairs' = ipairs \cup {<<PairI0(ik, target), PairI1(ik, target)>>}
    /\ ik' = ik + 1
    /\ UNCHANGED gvars
    /\ UNCHANGED <<kvars, svars>>

InitIdx ==
    /\ nq \in 1..MaxIdxQubits
    /\ target \in 0..(nq - 1)
    /\ controls = {} /\ gate = <<>>
    /\ amp = <<>> /\ amp0 = <<>> /\ ppc = <<>> /\ loc = <<>>
    /\ ik = 0
    /\ ipairs = {}
    /\ IdleK /\ IdleS

NextIdx == NextPair

SpecIdx == InitIdx /\ [][NextIdx]_vars

\* C7: for every n >= 1 and target t in [0, n-1], k -> (i0, i1) over
\* 0 <= k < 2^(n-1) partitions the 2^n indices into 2^(n-1) pairs: every
\* index occurs in exactly one pair, i0 has bit t = 0, i1 has bit t = 1, and
\* i0 and i1 agree on every other bit.
Thm_C7_PairsPartitionIndices ==
    /\ \A p \in ipairs :
          /\ p[1] \in 0..(Pow2(nq) - 1)
          /\ p[2] \in 0..(Pow2(nq) - 1)
          /\ Bit(p[1], target) = 0
          /\ Bit(p[2], target) = 1
          /\ \A b \in 0..(nq - 1) : b # target => Bit(p[1], b) = Bit(p[2], b)
    /\ Cardinality(ipairs) = ik
    /\ \A i \in 0..(Pow2(nq) - 1) :
          Cardinality({p \in ipairs : i \in {p[1], p[2]}}) <= 1
    /\ ik = NPairs(nq) =>
          \A i \in 0..(Pow2(nq) - 1) : \E p \in ipairs : i \in {p[1], p[2]}

Wit_C7_PairsPartitionIndices ==
    /\ nq = 4 /\ target = 2
    /\ ik = NPairs(nq)
    /\ Cardinality(ipairs) = 8
    /\ <<11, 15>> \in ipairs
    /\ <<0, 4>> \in ipairs

--------------------------------------------------------------------------
(* Single-qubit gate applicator *)

I == <<0, 1>>
CAdd(x, y) == <<x[1] + y[1], x[2] + y[2]>>
CMul(x, y) == <<x[1] * y[1] - x[2] * y[2], x[1] * y[2] + x[2] * y[1]>>

GateVals == {One, I}
\* [[0,1],[1,0]] and [[1,i],[2,1+i]]
Matrices == {<<Zero, One, One, Zero>>, <<One, I, <<2, 0>>, <<1, 1>>>>}

PairUpdate_inPlace(M, r0, r1) ==
    LET n0 == CAdd(CMul(M[1], r0), CMul(M[2], r1))
    IN  <<n0, CAdd(CMul(M[3], n0), CMul(M[4], r1))>>

\* new[i0] = a * old[i0] + b * old[i1];  new[i1] = c * old[i0] + d * old[i1]
PairUpdate(M, r0, r1) ==
    <<CAdd(CMul(M[1], r0), CMul(M[2], r1)),
      CAdd(CMul(M[3], r0), CMul(M[4], r1))>>

\* A pair is eligible iff every control bit of its index is 1.
Eligible(k) == \A c \in controls : Bit(PairI0(k, target), c) = 1

PairKs == 0..(NPairs(nq) - 1)

\* A worker finds pair k ineligible and leaves it untouched.
SkipPair(k) ==
    /\ ppc[k] = "idle"
    /\ ~Eligible(k)
    /\ ppc' = [ppc EXCEPT ![k] = "done"]
    /\ UNCHANGED <<nq, target, controls, gate, amp, amp0, loc>>
    /\ UNCHANGED <<kvars, svars, ivars>>

\* A worker reads both entries of eligible pair k.
ReadPair(k) ==
    /\ ppc[k] = "idle"
    /\ Eligible(k)
    /\ loc' = [loc EXCEPT ![k] = <<amp[PairI0(k, target)],
                                   amp[PairI1(k, target)]>>]
    /\ ppc' = [ppc EXCEPT ![k] = "read"]
    /\ UNCHANGED <<nq, target, controls, gate, amp, amp0>>
    /\ UNCHANGED <<kvars, svars, ivars>>

\* The worker stores the new i0 entry.
WriteI0(k) ==
    /\ ppc[k] = "read"
    /\ amp' = [amp EXCEPT ![PairI0(k, target)] =
                  PairUpdate(gate, loc[k][1], loc[k][2])[1]]
    /\ ppc' = [ppc EXCEPT ![k] = "w0"]
    /\ UNCHANGED <<nq, target, controls, gate, amp0, loc>>
    /\ UNCHANGED <<kvars, svars, ivars>>

\* The worker stores the new i1 entry.
WriteI1(k) ==
    /\ ppc[k] = "w0"
    /\ amp' = [amp EXCEPT ![PairI1(k, target)] =
                  PairUpdate(gate, loc[k][1], loc[k][2])[2]]
    /\ ppc' = [ppc EXCEPT ![k] = "done"]
    /\ UNCHANGED <<nq, target, controls, gate, amp0, loc>>
    /\ UNCHANGED <<kvars, svars, ivars>>

InitGate ==
    /\ nq \in 1..MaxQubits
    /\ target \in 0..(nq - 1)
    /\ controls \in SUBSET ((0..(nq - 1)) \ {target})
    /\ gate \in Matrices
    /\ amp \in [0..(Pow2(nq) - 1) -> GateVals]
    /\ amp0 = amp
    /\ ppc = [k \in PairKs |-> "idle"]
    /\ loc = [k \in PairKs |-> <<Zero, Zero>>]
    /\ IdleK /\ IdleS /\ IdleI

NextGate ==
    \/ \E k \in PairKs : SkipPair(k)
    \/ \E k \in PairKs : ReadPair(k)
    \/ \E k \in PairKs : WriteI0(k)
    \/ \E k \in PairKs : WriteI1(k)

SpecGate == InitGate /\ [][NextGate]_vars

AllPairsDone == \A k \in PairKs : ppc[k] = "done"

\* C6: for every n, target, control set, matrix [[a,b],[c,d]] and input
\* vector, and for every interleaving of the per-pair updates, ApplyGate
\* ends with new[i0] = a*old[i0] + b*old[i1] and new[i1] = c*old[i0] +
\* d*old[i1] for every eligible pair and with both entries of every
\* ineligible pair equal to their old values.
Thm_C6_GateAnyInterleaving ==
    \A k \in PairKs :
        LET i0 == PairI0(k, target)
            i1 == PairI1(k, target)
        IN  /\ (ppc[k] = "done" /\ Eligible(k)) =>
                  /\ amp[i0] = CAdd(CMul(gate[1], amp0[i0]),
                                    CMul(gate[2], amp0[i1]))
                  /\ amp[i1] = CAdd(CMul(gate[3], amp0[i0]),
                                    CMul(gate[4], amp0[i1]))
            /\ ~Eligible(k) => (amp[i0] = amp0[i0] /\ amp[i1] = amp0[i1])

Wit_C6_GateAnyInterleaving ==
    /\ AllPairsDone
    /\ nq = 2 /\ target = 0 /\ controls = {1}
    /\ gate = <<One, I, <<2, 0>>, <<1, 1>>>>
    /\ amp0 = [i \in 0..3 |-> IF i < 2 THEN One ELSE I]
    /\ amp[0] = One /\ amp[1] = One
    /\ amp[2] = <<-1, 1>> /\ amp[3] = <<-1, 3>>

==========================================================================
